---- MODULE Spec2Model ----
(***************************************************************************)
(* Model of rts::room_model (code-samples/room_model.h): the recursive BSP *)
(* builder build_BSP, the identifier harmonisation, the plane-polygon map, *)
(* the aggregation of direct_reflectables, disable_selected_walls and      *)
(* traverseTree.                                                           *)
(*                                                                         *)
(* Walls are planar polygons in 3D with integer coordinates.  The inputs   *)
(* enumerated are axis-aligned rectangles, so that the fragments cut by an *)
(* axis-aligned plane have integer corners again.                          *)
(***************************************************************************)
EXTENDS Integers, Sequences, FiniteSets, TLC

VARIABLES
    pc,                 \* position in the operation being run
    polygons,           \* the caller's std::vector<rts::wall>
    walls_to_disable,   \* room_model::walls_to_disable
    threshold,          \* the splitting threshold, a rational <<num, den>>
    std_ties,           \* how std::sort arranges equivalent elements
    walls,              \* room_model::walls (the walls pointed to)
    heap,               \* the rts::wall objects allocated with new; a pointer is an index
    pwalls_BSP,         \* room_model::pwalls_BSP (pointers)
    walls_BSP,          \* room_model::walls_BSP (copies)
    bsp_tree,           \* room_model::bsp_tree
    bsp_tree_height,    \* room_model::bsp_tree_height
    plane_polygon_map,  \* room_model::plane_polygon_map (groups of pointers)
    calls,              \* trace of the build_BSP calls of the last build
    bsp_tree2,          \* the tree of a repeated build_BSP on the same input
    fault               \* TRUE once std::out_of_range was thrown

vars == <<pc, polygons, walls_to_disable, threshold, std_ties, walls, heap,
          pwalls_BSP, walls_BSP, bsp_tree, bsp_tree_height, plane_polygon_map,
          calls, bsp_tree2, fault>>

(***************************************************************************)
(* Bounds                                                                  *)
(***************************************************************************)
MaxWalls == 3        \* longest input wall list of set_up_room_model
MaxMapWalls == 3     \* longest wall list given to create_plane_polygon_map
MaxAggWalls == 2     \* most walls in the aggregation taken alone
MaxRefl == 2         \* longest direct_reflectables list before aggregation
MaxDisable == 2      \* longest walls_to_disable list

(***************************************************************************)
(* Sequences helpers                                                       *)
(***************************************************************************)
Range(s) == {s[k] : k \in 1..Len(s)}

Min2(a, b) == IF a <= b THEN a ELSE b

Max2(a, b) == IF a >= b THEN a ELSE b

Abs(a) == IF a < 0 THEN 0 - a ELSE a

SeqsUpTo(S, n) == UNION {[1..k -> S] : k \in 0..n}

(***************************************************************************)
(* The geometric kernel (spatial-partitioning/*.h)                         *)
(***************************************************************************)
Dot(u, v) == u[1] * v[1] + u[2] * v[2] + u[3] * v[3]

SignedDistance(plane, p) == Dot(plane.n, p) - plane.d

\* Plane::whichSide: the three-way classification of a point
whichSide(plane, p) ==
    LET sd == SignedDistance(plane, p)
    IN  IF sd > 0 THEN "ABOVE" ELSE IF sd < 0 THEN "BELOW" ELSE "ON"

\* the point where the edge p -> q meets the plane (p, q strictly on opposite sides)
Intersect(plane, p, q) ==
    LET sp == Abs(SignedDistance(plane, p))
        sq == Abs(SignedDistance(plane, q))
    IN  [k \in 1..3 |-> p[k] + ((q[k] - p[k]) * sp) \div (sp + sq)]

NextIdx(pts, k) == IF k = Len(pts) THEN 1 ELSE k + 1

\* what the edge starting at corner k contributes to the fragment on side keep
EdgeOut(plane, pts, k, keep) ==
    LET p == pts[k]
        q == pts[NextIdx(pts, k)]
        sp == whichSide(plane, p)
        sq == whichSide(plane, q)
    IN  (IF sp = keep \/ sp = "ON" THEN <<p>> ELSE <<>>)
        \o (IF {sp, sq} = {"ABOVE", "BELOW"} THEN <<Intersect(plane, p, q)>> ELSE <<>>)

RECURSIVE ClipFrom(_, _, _, _)
ClipFrom(plane, pts, k, keep) ==
    IF k > Len(pts) THEN <<>>
    ELSE EdgeOut(plane, pts, k, keep) \o ClipFrom(plane, pts, k + 1, keep)

\* the part of the ring pts on side keep of the plane
Clip(plane, pts, keep) == ClipFrom(plane, pts, 1, keep)

HasSide(plane, pts, side) == \E k \in 1..Len(pts) : whichSide(plane, pts[k]) = side

\* split(g, cut, above, on, below): g goes to one list whole, or is cut in two
split(g, cut, b) ==
    LET hasA == HasSide(cut, g.pts, "ABOVE")
        hasB == HasSide(cut, g.pts, "BELOW")
    IN  IF ~hasA /\ ~hasB THEN [b EXCEPT !.on = Append(@, g)]
        ELSE IF ~hasB THEN [b EXCEPT !.above = Append(@, g)]
        ELSE IF ~hasA THEN [b EXCEPT !.below = Append(@, g)]
        ELSE [b EXCEPT !.above = Append(@, [g EXCEPT !.pts = Clip(cut, g.pts, "ABOVE")]),
                       !.below = Append(@, [g EXCEPT !.pts = Clip(cut, g.pts, "BELOW")])]

(***************************************************************************)
(* std::sort: the result is ordered by the comparator; the arrangement of  *)
(* equivalent elements is left to the library (std_ties).  Elements carry  *)
(* their key as a rational <<num, den>>, den > 0.                          *)
(***************************************************************************)
KeyLess(x, y) == x[1] * y[2] < y[1] * x[2]

\* x goes in front of e when the library puts an inserted x there
GoesBefore(x, e) ==
    IF std_ties = "keep" THEN KeyLess(x.key, e.key) ELSE ~KeyLess(e.key, x.key)

InsertSorted(s, x) ==
    LET k == CHOOSE j \in 1..(Len(s) + 1) :
                 /\ (j <= Len(s) => GoesBefore(x, s[j]))
                 /\ \A i \in 1..(j - 1) : ~GoesBefore(x, s[i])
    IN  SubSeq(s, 1, k - 1) \o <<x>> \o SubSeq(s, k, Len(s))

RECURSIVE StdSort(_)
StdSort(s) ==
    IF s = <<>> THEN <<>>
    ELSE InsertSorted(StdSort(SubSeq(s, 1, Len(s) - 1)), s[Len(s)])

(***************************************************************************)
(* Conversions between rts::wall and PolygonSpatial                        *)
(***************************************************************************)
NULL == [null |-> TRUE]

IsNull(node) == DOMAIN node = {"null"}

\* construct_polygonspatial_model: one PolygonSpatial per enabled wall
RECURSIVE construct_polygonspatial_model(_)
construct_polygonspatial_model(ws) ==
    IF ws = <<>> THEN <<>>
    ELSE LET i == ws[1]
         IN  (IF i.enabled
              THEN <<[pts |-> i.corners, plane |-> [n |-> i.n, d |-> i.d],
                      m_parentID |-> i.id]>>
              ELSE <<>>)
             \o construct_polygonspatial_model(Tail(ws))

\* the rts::wall made for polygon i: the local id is never incremented,
\* normal and offset are those of the parent wall in the member walls (ws)
NewWall(i, ws) ==
    [id |-> i.m_parentID * 10000 + 0,
     corners |-> i.pts,
     enabled |-> TRUE,
     n |-> ws[i.m_parentID + 1].n,
     d |-> ws[i.m_parentID + 1].d,
     parent_id |-> i.m_parentID,
     plane_polygon_map_id |-> -1,
     direct_reflectables |-> <<>>]

\* construct_rtswall_model: allocates one wall per polygon, in order;
\* ws is the member walls, h the heap; returns the pointers and the grown heap
construct_rtswall_model(polys, ws, h) ==
    [wall_model |-> [k \in 1..Len(polys) |-> Len(h) + k],
     heap |-> h \o [k \in 1..Len(polys) |-> NewWall(polys[k], ws)]]

(***************************************************************************)
(* build_BSP                                                               *)
(***************************************************************************)
\* mutant: a corner ON the plane of another polygon counts as BELOW
subspace_convex_on_counts(polys) ==
    \A i \in 1..Len(polys) : \A j \in 1..Len(polys) :
        i # j => ~HasSide(polys[i].plane, polys[j].pts, "BELOW")
                 /\ ~HasSide(polys[i].plane, polys[j].pts, "ON")

\* lines 145-163: no corner of any polygon is BELOW the plane of another
subspace_convex(polys) ==
    \A i \in 1..Len(polys) : \A j \in 1..Len(polys) :
        i # j => ~HasSide(polys[i].plane, polys[j].pts, "BELOW")

\* lines 181-202: how polygon j lies to the plane of candidate i
Relation(polys, i, j) ==
    LET behind == HasSide(polys[i].plane, polys[j].pts, "BELOW")
        in_front == HasSide(polys[i].plane, polys[j].pts, "ABOVE")
    IN  IF behind /\ ~in_front THEN "behind"
        ELSE IF behind /\ in_front THEN "crosses"
        ELSE "in_front"

CountRel(polys, i, rel) ==
    Cardinality({j \in 1..Len(polys) : j # i /\ Relation(polys, i, j) = rel})

\* lines 174-205: (temp_id; behind; front; crosses) per candidate
measures(polys) ==
    [i \in 1..Len(polys) |->
        [id |-> i - 1,
         behind |-> CountRel(polys, i, "behind"),
         in_front |-> CountRel(polys, i, "in_front"),
         crosses |-> CountRel(polys, i, "crosses")]]

\* lines 212-219: min(behind/front, front/behind), 0 when one of them is 0
BalanceScore(behind, in_front) ==
    IF behind = 0 THEN <<0, 1>>
    ELSE IF in_front = 0 THEN <<0, 1>>
    ELSE <<Min2(behind, in_front), Max2(behind, in_front)>>

\* lines 207-226: r_p, sorted by the number of crosses
r_p_by_crosses(polys) ==
    LET m == measures(polys)
    IN  StdSort([i \in 1..Len(polys) |->
                    [id |-> m[i].id,
                     score |-> BalanceScore(m[i].behind, m[i].in_front),
                     crosses |-> m[i].crosses,
                     key |-> <<m[i].crosses, 1>>]])

\* line 230: score >= threshold
MeetsThreshold(score, thr) == score[1] * thr[2] >= thr[1] * score[2]

\* line 240: abs(score - threshold)
Deviation(score, thr) == <<Abs(score[1] * thr[2] - thr[1] * score[2]), score[2] * thr[2]>>

\* mutant: the re-sorted list is read from its back
FallbackWall_back(r_p, thr) ==
    LET d == [k \in 1..Len(r_p) |-> [r_p[k] EXCEPT !.key = Deviation(r_p[k].score, thr)]]
    IN  StdSort(d)[Len(d)].id

\* lines 238-247: re-sort by the distance of the score to the threshold
FallbackWall(r_p, thr) ==
    LET d == [k \in 1..Len(r_p) |-> [r_p[k] EXCEPT !.key = Deviation(r_p[k].score, thr)]]
    IN  StdSort(d)[1].id

\* lines 227-247: the index of the partition wall
SelectWall(polys, thr) ==
    LET r_p == r_p_by_crosses(polys)
        ok == {k \in 1..Len(r_p) : MeetsThreshold(r_p[k].score, thr)}
    IN  IF ok # {}
        THEN r_p[CHOOSE k \in ok : \A l \in ok : k <= l].id
        ELSE FallbackWall(r_p, thr)

\* lines 255-259: every polygon but the partition wall is split by its plane
RECURSIVE SplitFrom(_, _, _, _)
SplitFrom(polys, wall_id, i, b) ==
    IF i >= Len(polys) THEN b
    ELSE IF i = wall_id THEN SplitFrom(polys, wall_id, i + 1, b)
    ELSE SplitFrom(polys, wall_id, i + 1,
                   split(polys[i + 1], polys[wall_id + 1].plane, b))

SplitAll(polys, wall_id) ==
    SplitFrom(polys, wall_id, 0, [above |-> <<>>, on |-> <<>>, below |-> <<>>])

\* mutant: the partition wall is not pushed to on_polys
OnPolys_without_partition_wall(polys, wall_id, b) == b.on

\* lines 262, 265-266: the partition wall, then the on list
OnPolys(polys, wall_id, b) == <<polys[wall_id + 1]>> \o b.on

\* mutant: the walls of the node are put in front of the accumulator
PushNodeWalls_in_front(new_walls, node_walls) == node_walls \o new_walls

\* lines 277-278 (and 166-167): the node's walls are appended to new_walls
PushNodeWalls(new_walls, node_walls) == new_walls \o node_walls

\* the value of a singleton set; The({e(x) : x \in {v}}) is e(v) with v
\* evaluated once
The(S) == CHOOSE x \in S : TRUE

\* lines 164-169: the leaf made of all polygons; c is the converted wall model
LeafResult(polys, st, c) ==
    [node |-> [node_walls |-> c.wall_model, front |-> NULL, back |-> NULL,
               leaf_node |-> TRUE],
     st |-> [walls |-> st.walls, heap |-> c.heap,
             new_walls |-> PushNodeWalls(st.new_walls, c.wall_model),
             calls |-> Append(st.calls,
                         [polygons |-> polys, leaf |-> TRUE, wall_id |-> -1,
                          above |-> <<>>, on |-> <<>>, below |-> <<>>,
                          node_walls |-> c.wall_model])]]

\* lines 275-286: the node of the partition wall; f and k are the results of
\* the calls for the front and the back subtree
NodeResult(polys, wall_id, b, c, f, k) ==
    [node |-> [node_walls |-> c.wall_model, front |-> f.node, back |-> k.node,
               leaf_node |-> FALSE],
     st |-> [walls |-> k.st.walls, heap |-> k.st.heap,
             new_walls |-> PushNodeWalls(k.st.new_walls, c.wall_model),
             calls |-> Append(k.st.calls,
                         [polygons |-> polys, leaf |-> FALSE, wall_id |-> wall_id,
                          above |-> b.above, on |-> b.on, below |-> b.below,
                          node_walls |-> c.wall_model])]]

\* st = [walls, heap, new_walls, calls]: the member walls, the heap, the
\* accumulator and the call trace; returns [node, st].  The walls of the node
\* are allocated first, then the front subtree is built, then the back one.
RECURSIVE build_BSP(_, _, _)
build_BSP(polys, st, thr) ==
    IF polys = <<>> THEN [node |-> NULL, st |-> st]
    ELSE IF subspace_convex(polys)
    THEN The({LeafResult(polys, st, c) :
                 c \in {construct_rtswall_model(polys, st.walls, st.heap)}})
    ELSE The({The({The({The({The({NodeResult(polys, wall_id, b, c, f, k) :
                 k \in {build_BSP(b.below, f.st, thr)}}) :
                 f \in {build_BSP(b.above, [st EXCEPT !.heap = c.heap], thr)}}) :
                 c \in {construct_rtswall_model(OnPolys(polys, wall_id, b),
                                                st.walls, st.heap)}}) :
                 b \in {SplitAll(polys, wall_id)}}) :
                 wall_id \in {SelectWall(polys, thr)}})

\* mutant: the heights of the subtrees are added up
RECURSIVE traverseTree_sum(_)
traverseTree_sum(node) ==
    IF IsNull(node) THEN 0
    ELSE traverseTree_sum(node.front) + traverseTree_sum(node.back) + 1

\* traverseTree: the height of the tree
RECURSIVE traverseTree(_)
traverseTree(node) ==
    IF IsNull(node) THEN 0
    ELSE LET left_height == traverseTree(node.front)
             right_height == traverseTree(node.back)
         IN  IF left_height >= right_height THEN left_height + 1 ELSE right_height + 1

(***************************************************************************)
(* Identifier harmonisation (set_up_room_model, lines 81-90)               *)
(***************************************************************************)
IdFactor == 1000

\* mutant: the increment is left out of the new id
HarmonisedId_no_increment(parent_id, monotone_id_increment) ==
    parent_id * IdFactor

\* j->setID(j->parent_id * 1000 + monotone_id_increment)
HarmonisedId(parent_id, monotone_id_increment) ==
    parent_id * IdFactor + monotone_id_increment

\* the inner loop over pwalls_BSP for parent i, from position k on
RECURSIVE HarmoniseParent(_, _, _, _, _)
HarmoniseParent(h, pw, i, k, monotone_id_increment) ==
    IF k > Len(pw) THEN h
    ELSE IF h[pw[k]].parent_id = i
    THEN HarmoniseParent([h EXCEPT ![pw[k]].id = HarmonisedId(i, monotone_id_increment)],
                         pw, i, k + 1, monotone_id_increment + 1)
    ELSE HarmoniseParent(h, pw, i, k + 1, monotone_id_increment)

\* the outer loop over the indices of walls
RECURSIVE HarmoniseFrom(_, _, _, _)
HarmoniseFrom(h, pw, i, nwalls) ==
    IF i >= nwalls THEN h
    ELSE HarmoniseFrom(HarmoniseParent(h, pw, i, 1, 0), pw, i + 1, nwalls)

(***************************************************************************)
(* create_plane_polygon_map                                                *)
(***************************************************************************)
signbit(x) == x < 0

\* lines 312-322: same normal, component by component and in sign, same offset
SamePlane(a, b) ==
    /\ \A k \in 1..Len(a.n) : ~(b.n[k] # a.n[k] \/ signbit(a.n[k]) # signbit(b.n[k]))
    /\ a.d = b.d

\* line 304: the pointers sorted by the id of their wall
SortById(h, ptrs) ==
    LET keyed == StdSort([k \in 1..Len(ptrs) |->
                            [key |-> <<h[ptrs[k]].id, 1>>, ptr |-> ptrs[k]]])
    IN  [k \in 1..Len(ptrs) |-> keyed[k].ptr]

\* lines 305-306: the first wall opens a group, whether enabled or not;
\* the first wall of group 0 gets group id 0
SeedMap(m) ==
    LET map1 == Append(m.map, <<m.sorted[1]>>)
    IN  [m EXCEPT !.map = map1, !.heap[map1[1][1]].plane_polygon_map_id = 0]

\* lines 309-334: the loop over the groups for one wall, from group i on;
\* the bound plane_polygon_map.size() is read again in every round
RECURSIVE GroupLoop(_, _, _)
GroupLoop(m, one_wall, i) ==
    IF i >= Len(m.map) THEN m
    ELSE LET first == m.heap[m.map[i + 1][1]]
         IN  IF m.heap[one_wall].id = first.id THEN GroupLoop(m, one_wall, i + 1)
             ELSE IF SamePlane(m.heap[one_wall], first)
             THEN [m EXCEPT !.map[i + 1] = Append(@, one_wall),
                            !.heap[one_wall].plane_polygon_map_id = i]
             ELSE IF i = Len(m.map) - 1
             THEN GroupLoop([m EXCEPT !.map = Append(@, <<one_wall>>),
                                      !.heap[one_wall].plane_polygon_map_id = i + 1],
                            one_wall, i + 1)
             ELSE GroupLoop(m, one_wall, i + 1)

\* lines 307-335: the loop over the sorted walls, disabled walls skipped
RECURSIVE WallLoop(_, _)
WallLoop(m, k) ==
    IF k > Len(m.sorted) THEN m
    ELSE IF ~m.heap[m.sorted[k]].enabled THEN WallLoop(m, k + 1)
    ELSE WallLoop(GroupLoop(m, m.sorted[k], 0), k + 1)

\* create_plane_polygon_map(walls_to_check) on a non-empty list; map is the
\* member plane_polygon_map as the call finds it; returns [heap, map]
create_plane_polygon_map(walls_to_check, h, map) ==
    LET m == WallLoop(SeedMap([heap |-> h, map |-> map,
                               sorted |-> SortById(h, walls_to_check)]), 1)
    IN  [heap |-> m.heap, map |-> m.map]

(***************************************************************************)
(* Aggregation of direct_reflectables (set_up_room_model, lines 109-123)   *)
(***************************************************************************)
\* lines 112-116: the lists of the members i[k], i[k+1], ... one after another
RECURSIVE UniteFrom(_, _, _)
UniteFrom(h, i, k) ==
    IF k > Len(i) THEN <<>>
    ELSE h[i[k]].direct_reflectables \o UniteFrom(h, i, k + 1)

\* line 119: std::sort of the pointers
SortPtrs(ptrs) ==
    LET keyed == StdSort([k \in 1..Len(ptrs) |-> [key |-> <<ptrs[k], 1>>, ptr |-> ptrs[k]]])
    IN  [k \in 1..Len(ptrs) |-> keyed[k].ptr]

\* mutant: the list is not shortened to the unique part
Unique_not_resized(s) == s

\* lines 120-121: std::unique and resize: equal neighbours collapse
RECURSIVE Unique(_)
Unique(s) ==
    IF Len(s) <= 1 THEN s
    ELSE IF s[1] = s[2] THEN Unique(Tail(s))
    ELSE <<s[1]>> \o Unique(Tail(s))

\* line 122: the united list is stored in the first wall of the group
StoreUnited(h, i, direct_reflectables_united) ==
    [h EXCEPT ![i[1]].direct_reflectables = direct_reflectables_united]

\* the loop over the groups, from group g on
RECURSIVE AggregateFrom(_, _, _)
AggregateFrom(h, map, g) ==
    IF g > Len(map) THEN h
    ELSE AggregateFrom(StoreUnited(h, map[g], Unique(SortPtrs(UniteFrom(h, map[g], 1)))),
                       map, g + 1)

(***************************************************************************)
(* disable_selected_walls                                                  *)
(***************************************************************************)
\* mutant: an index that is not below the size is passed over
RECURSIVE DisableFrom_skipping(_, _, _)
DisableFrom_skipping(ws, ids, k) ==
    IF k > Len(ids) THEN [walls |-> ws, fault |-> FALSE]
    ELSE IF ids[k] >= Len(ws) THEN DisableFrom_skipping(ws, ids, k + 1)
    ELSE DisableFrom_skipping([ws EXCEPT ![ids[k] + 1].enabled = FALSE], ids, k + 1)

\* walls.at(wall_id).enabled = false for the entries from k on; at() throws
\* std::out_of_range at the first index that is not below the size
RECURSIVE DisableFrom(_, _, _)
DisableFrom(ws, ids, k) ==
    IF k > Len(ids) THEN [walls |-> ws, fault |-> FALSE]
    ELSE IF ids[k] >= Len(ws) THEN [walls |-> ws, fault |-> TRUE]
    ELSE DisableFrom([ws EXCEPT ![ids[k] + 1].enabled = FALSE], ids, k + 1)

(***************************************************************************)
(* Inputs                                                                  *)
(***************************************************************************)
Extent == 2          \* the rectangles span 0..Extent in their plane

\* the axis-aligned rectangle in the plane (coordinate axis = c), facing s
Rect(axis, c, s) ==
    LET P(u, v) == [k \in 1..3 |-> IF k = axis THEN c
                                   ELSE IF k = (axis % 3) + 1 THEN u ELSE v]
    IN  [corners |-> <<P(0, 0), P(Extent, 0), P(Extent, Extent), P(0, Extent)>>,
         n |-> [k \in 1..3 |-> IF k = axis THEN s ELSE 0],
         d |-> s * c]

\* room surfaces facing inwards, and partitions standing in the room
Catalogue ==
    {Rect(1, 0, 1), Rect(1, Extent, -1), Rect(1, 1, 1),
     Rect(2, 0, 1), Rect(2, 1, 1),
     Rect(3, 1, 1)}

\* wall number k (0-based) of a room, made from a catalogue rectangle
MakeWall(r, k, en) ==
    [id |-> k, corners |-> r.corners, n |-> r.n, d |-> r.d, enabled |-> en]

Thresholds == {<<0, 1>>, <<1, 1>>, <<3, 2>>}

\* the rooms given to set_up_room_model: all walls enabled, or the first disabled
Rooms ==
    {[k \in 1..Len(rs) |-> MakeWall(rs[k], k - 1, ~(k = 1 /\ off))] :
        <<rs, off>> \in SeqsUpTo(Catalogue, MaxWalls) \X BOOLEAN}

\* a wall as build_BSP leaves it, for the operations that take any wall list
LooseWall(r, id, en) ==
    [id |-> id, corners |-> r.corners, enabled |-> en, n |-> r.n, d |-> r.d,
     parent_id |-> id, plane_polygon_map_id |-> -1, direct_reflectables |-> <<>>]

IdOrders(n) == {f \in [1..n -> 0..(n - 1)] : \A a, b \in 1..n : a # b => f[a] # f[b]}

\* wall lists for create_plane_polygon_map: distinct ids in any order, walls
\* on the same plane, on parallel planes and on one plane facing both ways
MapRects == {Rect(1, 0, 1), Rect(1, 0, -1), Rect(1, 1, 1)}

MapWallLists ==
    UNION {{[k \in 1..n |-> LooseWall(rs[k], ids[k], en[k])] :
              <<rs, ids, en>> \in [1..n -> MapRects] \X IdOrders(n) \X [1..n -> BOOLEAN]} :
           n \in 1..MaxMapWalls}

\* wall lists for the aggregation: enabled walls on one plane or on two,
\* with ids rising or falling along the list
AggRects == {Rect(1, 0, 1), Rect(1, 1, 1)}

AggWallLists ==
    UNION {{[k \in 1..n |-> LooseWall(rs[k], IF up THEN k - 1 ELSE n - k, TRUE)] :
              <<rs, up>> \in [1..n -> AggRects] \X BOOLEAN} :
           n \in 1..MaxAggWalls}

(***************************************************************************)
(* set_up_room_model, in its steps                                         *)
(***************************************************************************)
Idle ==
    /\ walls_to_disable = <<>>
    /\ walls = <<>>
    /\ walls_BSP = <<>>
    /\ bsp_tree = NULL
    /\ bsp_tree_height = 0
    /\ plane_polygon_map = <<>>
    /\ calls = <<>>
    /\ bsp_tree2 = NULL
    /\ fault = FALSE

Init ==
    /\ pc = "start"
    /\ polygons \in Rooms
    /\ threshold \in Thresholds
    /\ std_ties \in {"keep", "reverse"}
    /\ heap = <<>>
    /\ pwalls_BSP = <<>>
    /\ Idle

\* lines 72-79: convert, record the walls, build the tree
Build ==
    /\ pc = "start"
    /\ LET r == build_BSP(construct_polygonspatial_model(polygons),
                          [walls |-> polygons, heap |-> heap,
                           new_walls |-> pwalls_BSP, calls |-> <<>>],
                          threshold)
       IN  /\ walls' = polygons
           /\ bsp_tree' = r.node
           /\ heap' = r.st.heap
           /\ pwalls_BSP' = r.st.new_walls
           /\ calls' = r.st.calls
    /\ pc' = "built"
    /\ UNCHANGED <<polygons, walls_to_disable, threshold, std_ties, walls_BSP,
                   bsp_tree_height, plane_polygon_map, bsp_tree2, fault>>

\* lines 81-90: give new ids
Harmonise ==
    /\ pc = "built"
    /\ heap' = HarmoniseFrom(heap, pwalls_BSP, 0, Len(walls))
    /\ pc' = "harmonised"
    /\ UNCHANGED <<polygons, walls_to_disable, threshold, std_ties, walls, pwalls_BSP,
                   walls_BSP, bsp_tree, bsp_tree_height, plane_polygon_map, calls,
                   bsp_tree2, fault>>

\* line 93: create_plane_polygon_map(pwalls_BSP); with no wall produced the
\* call reads walls_to_check[0] of an empty vector, and nothing is known of
\* what follows
CreatePlanePolygonMap ==
    /\ pc = "harmonised"
    /\ IF pwalls_BSP = <<>>
       THEN /\ pc' = "undefined"
            /\ UNCHANGED <<heap, plane_polygon_map>>
       ELSE LET r == create_plane_polygon_map(pwalls_BSP, heap, plane_polygon_map)
            IN  /\ heap' = r.heap
                /\ plane_polygon_map' = r.map
                /\ pc' = "mapped"
    /\ UNCHANGED <<polygons, walls_to_disable, threshold, std_ties, walls, pwalls_BSP,
                   walls_BSP, bsp_tree, bsp_tree_height, calls, bsp_tree2, fault>>

\* what init_wall_state, update_blockable_walls and apply_plane_polygon_map
\* may leave in direct_reflectables: nothing, or every other wall
RECURSIVE Without(_, _)
Without(s, x) ==
    IF s = <<>> THEN <<>>
    ELSE (IF s[1] = x THEN <<>> ELSE <<s[1]>>) \o Without(Tail(s), x)

ReflectPatterns ==
    {[p \in 1..Len(heap) |-> <<>>], [p \in 1..Len(heap) |-> Without(pwalls_BSP, p)]}

\* ... or any list of up to MaxRefl entries naming the first or the last wall
ReflectLists == [1..Len(heap) -> SeqsUpTo({1, Len(heap)}, MaxRefl)]

\* lines 95-107: every wall computes its direct_reflectables (choice is the
\* set of outcomes), then the walls are copied into walls_BSP
ApplyPlanePolygonMap(choice) ==
    /\ pc = "mapped"
    /\ \E f \in choice :
          LET h == [p \in 1..Len(heap) |-> [heap[p] EXCEPT !.direct_reflectables = f[p]]]
          IN  /\ heap' = h
              /\ walls_BSP' = [k \in 1..Len(pwalls_BSP) |-> h[pwalls_BSP[k]]]
    /\ pc' = "reflected"
    /\ UNCHANGED <<polygons, walls_to_disable, threshold, std_ties, walls, pwalls_BSP,
                   bsp_tree, bsp_tree_height, plane_polygon_map, calls, bsp_tree2, fault>>

\* lines 109-123: unite the direct_reflectables of every plane polygon map entry
Aggregate ==
    /\ pc = "reflected"
    /\ heap' = AggregateFrom(heap, plane_polygon_map, 1)
    /\ pc' = "aggregated"
    /\ UNCHANGED <<polygons, walls_to_disable, threshold, std_ties, walls, pwalls_BSP,
                   walls_BSP, bsp_tree, bsp_tree_height, plane_polygon_map, calls,
                   bsp_tree2, fault>>

\* lines 125-135: the height of the tree
Height ==
    /\ pc = "aggregated"
    /\ bsp_tree_height' = traverseTree(bsp_tree)
    /\ pc' = "done"
    /\ UNCHANGED <<polygons, walls_to_disable, threshold, std_ties, walls, heap,
                   pwalls_BSP, walls_BSP, bsp_tree, plane_polygon_map, calls,
                   bsp_tree2, fault>>

\* build_BSP once more on the same polygons and threshold, with an
\* accumulator of its own
BuildAgain ==
    /\ pc = "done"
    /\ LET r == build_BSP(construct_polygonspatial_model(polygons),
                          [walls |-> walls, heap |-> heap,
                           new_walls |-> <<>>, calls |-> <<>>],
                          threshold)
       IN  /\ bsp_tree2' = r.node
           /\ heap' = r.st.heap
    /\ pc' = "rebuilt"
    /\ UNCHANGED <<polygons, walls_to_disable, threshold, std_ties, walls, pwalls_BSP,
                   walls_BSP, bsp_tree, bsp_tree_height, plane_polygon_map, calls, fault>>

Next ==
    \/ Build
    \/ Harmonise
    \/ CreatePlanePolygonMap
    \/ ApplyPlanePolygonMap(ReflectPatterns)
    \/ Aggregate
    \/ Height
    \/ BuildAgain

Spec == Init /\ [][Next]_vars

(***************************************************************************)
(* create_plane_polygon_map called on any wall list, and called again      *)
(***************************************************************************)
InitMap ==
    /\ pc = "map"
    /\ polygons = <<>>
    /\ threshold = <<0, 1>>
    /\ std_ties \in {"keep", "reverse"}
    /\ heap \in MapWallLists
    /\ pwalls_BSP = [k \in 1..Len(heap) |-> k]
    /\ Idle

CallCreatePlanePolygonMap ==
    /\ pc \in {"map", "mapped once"}
    /\ LET r == create_plane_polygon_map(pwalls_BSP, heap, plane_polygon_map)
       IN  /\ heap' = r.heap
           /\ plane_polygon_map' = r.map
    /\ pc' = IF pc = "map" THEN "mapped once" ELSE "mapped twice"
    /\ UNCHANGED <<polygons, walls_to_disable, threshold, std_ties, walls, pwalls_BSP,
                   walls_BSP, bsp_tree, bsp_tree_height, calls, bsp_tree2, fault>>

NextMap == CallCreatePlanePolygonMap

SpecMap == InitMap /\ [][NextMap]_vars

(***************************************************************************)
(* The aggregation on any outcome of the walls' own computation            *)
(***************************************************************************)
InitAgg ==
    /\ pc = "mapped"
    /\ polygons = <<>>
    /\ threshold = <<0, 1>>
    /\ std_ties \in {"keep", "reverse"}
    /\ \E ws \in AggWallLists :
          LET r == create_plane_polygon_map([k \in 1..Len(ws) |-> k], ws, <<>>)
          IN  /\ heap = r.heap
              /\ plane_polygon_map = r.map
              /\ pwalls_BSP = [k \in 1..Len(ws) |-> k]
    /\ walls_to_disable = <<>>
    /\ walls = <<>>
    /\ walls_BSP = <<>>
    /\ bsp_tree = NULL
    /\ bsp_tree_height = 0
    /\ calls = <<>>
    /\ bsp_tree2 = NULL
    /\ fault = FALSE

NextAgg ==
    \/ ApplyPlanePolygonMap(ReflectLists)
    \/ Aggregate

SpecAgg == InitAgg /\ [][NextAgg]_vars

(***************************************************************************)
(* disable_selected_walls                                                  *)
(***************************************************************************)
\* wall lists with any enabled flags
FlaggedRooms ==
    UNION {{[k \in 1..n |-> MakeWall(Rect(1, 0, 1), k - 1, en[k])] : en \in [1..n -> BOOLEAN]} :
           n \in 0..MaxWalls}

InitDisable ==
    /\ pc = "config"
    /\ polygons \in FlaggedRooms
    /\ walls_to_disable \in SeqsUpTo(0..MaxWalls, MaxDisable)
    /\ threshold = <<0, 1>>
    /\ std_ties = "keep"
    /\ heap = <<>>
    /\ pwalls_BSP = <<>>
    /\ walls = <<>>
    /\ walls_BSP = <<>>
    /\ bsp_tree = NULL
    /\ bsp_tree_height = 0
    /\ plane_polygon_map = <<>>
    /\ calls = <<>>
    /\ bsp_tree2 = NULL
    /\ fault = FALSE

\* disable_selected_walls(walls): an exception leaves the function at once
DisableSelectedWalls ==
    /\ pc = "config"
    /\ LET r == DisableFrom(polygons, walls_to_disable, 1)
       IN  /\ polygons' = r.walls
           /\ fault' = r.fault
           /\ pc' = IF r.fault THEN "thrown" ELSE "disabled"
    /\ UNCHANGED <<walls_to_disable, threshold, std_ties, walls, heap, pwalls_BSP,
                   walls_BSP, bsp_tree, bsp_tree_height, plane_polygon_map, calls,
                   bsp_tree2>>

NextDisable == DisableSelectedWalls

SpecDisable == InitDisable /\ [][NextDisable]_vars

(***************************************************************************)
(* Properties                                                              *)
(***************************************************************************)
\* the build_BSP call for the whole input (the trace is in order of return)
RootCall == calls[Len(calls)]

Built == pc \notin {"start", "map", "mapped once", "mapped twice", "config", "disabled", "thrown"}
         /\ calls # <<>>

\* wall pointer w is the conversion of polygon g
ConvertedFrom(w, g) ==
    /\ heap[w].corners = g.pts
    /\ heap[w].parent_id = g.m_parentID
    /\ heap[w].n = walls[g.m_parentID + 1].n
    /\ heap[w].d = walls[g.m_parentID + 1].d

\* the wall list ws is the conversion of the polygon list gs, one by one
ConvertedList(ws, gs) ==
    /\ Len(ws) = Len(gs)
    /\ \A k \in 1..Len(ws) : ConvertedFrom(ws[k], gs[k])

NoCornerBelow(polys) ==
    \A i \in 1..Len(polys) : \A j \in 1..Len(polys) : \A k \in 1..Len(polys[j].pts) :
        i # j => whichSide(polys[i].plane, polys[j].pts[k]) # "BELOW"

\* the corners of the other polygons are not on both sides of any polygon's plane
NoCornerOpposite(polys) ==
    \A i \in 1..Len(polys) :
        ~(/\ \E j \in 1..Len(polys) : j # i /\ HasSide(polys[i].plane, polys[j].pts, "ABOVE")
          /\ \E j \in 1..Len(polys) : j # i /\ HasSide(polys[i].plane, polys[j].pts, "BELOW"))

SingleLeafOfInput ==
    /\ bsp_tree.leaf_node
    /\ IsNull(bsp_tree.front)
    /\ IsNull(bsp_tree.back)
    /\ ConvertedList(bsp_tree.node_walls, RootCall.polygons)

\* C1 as stated: an input in which no corner lies on the opposite side of
\* another polygon's plane from the rest gives one leaf with the converted
\* input as its walls
C1_AsStated ==
    (Built /\ NoCornerOpposite(RootCall.polygons)) => SingleLeafOfInput

\* C1, amended: a non-empty input in which no corner of any polygon is BELOW
\* the plane of another polygon gives exactly one node, a leaf without
\* children whose walls are the converted input polygons in input order; the
\* same holds of every recursive call
C1_ConvexLeaf ==
    Built =>
        /\ NoCornerBelow(RootCall.polygons) => SingleLeafOfInput
        /\ \A c \in Range(calls) :
               NoCornerBelow(c.polygons) =>
                   c.leaf /\ ConvertedList(c.node_walls, c.polygons)

C1_Witness ==
    /\ pc = "built"
    /\ calls # <<>>
    /\ Len(RootCall.polygons) >= 2
    /\ RootCall.polygons[1].plane # RootCall.polygons[2].plane
    /\ NoCornerBelow(RootCall.polygons)
    /\ bsp_tree.leaf_node

RECURSIVE InternalNodes(_)
InternalNodes(node) ==
    IF IsNull(node) THEN {}
    ELSE (IF node.leaf_node THEN {} ELSE {node.node_walls})
         \cup InternalNodes(node.front) \cup InternalNodes(node.back)

EveryCorner(plane, pts, side) == \A k \in 1..Len(pts) : whichSide(plane, pts[k]) = side

\* C2: the walls of every internal node are the splitting polygon of its
\* step followed by the polygons the kernel put in the on bucket, converted,
\* and nothing else: none of them is a polygon of the above or below bucket
C2_OwnWalls ==
    Built =>
        /\ InternalNodes(bsp_tree) = {c.node_walls : c \in {x \in Range(calls) : ~x.leaf}}
        /\ \A c \in Range(calls) :
               ~c.leaf =>
                   /\ ConvertedList(c.node_walls, <<c.polygons[c.wall_id + 1]>> \o c.on)
                   /\ \A w \in Range(c.node_walls) :
                          /\ EveryCorner(c.polygons[c.wall_id + 1].plane, heap[w].corners, "ON")
                          /\ \A g \in Range(c.above) \cup Range(c.below) :
                                 heap[w].corners # g.pts

C2_Witness ==
    /\ pc = "built"
    /\ \E c \in Range(calls) : ~c.leaf /\ c.on # <<>> /\ c.above # <<>> /\ c.below # <<>>

\* the place of pointer w in pwalls_BSP
Place(w) == CHOOSE p \in 1..Len(pwalls_BSP) : pwalls_BSP[p] = w

Harmonised == pc \in {"harmonised", "mapped", "reflected", "aggregated", "done",
                      "rebuilt", "undefined"}

\* C3: after the harmonisation every wall of pwalls_BSP has the id
\* parent_id * 1000 + k, where k counts the walls of the same parent that
\* come before it in pwalls_BSP (so k starts at 0 and rises by one)
C3_Ids ==
    Harmonised =>
        \A p \in 1..Len(pwalls_BSP) :
            heap[pwalls_BSP[p]].id =
                heap[pwalls_BSP[p]].parent_id * 1000
                + Cardinality({q \in 1..(p - 1) :
                       heap[pwalls_BSP[q]].parent_id = heap[pwalls_BSP[p]].parent_id})

C3_Witness ==
    /\ pc = "harmonised"
    /\ \E p, q \in 1..Len(pwalls_BSP) :
          /\ p < q
          /\ heap[pwalls_BSP[p]].parent_id = heap[pwalls_BSP[q]].parent_id
          /\ heap[pwalls_BSP[q]].parent_id > 0

\* the balance score from the counts of a candidate: min/max when both are
\* nonzero, else 0
ClaimScore(m) ==
    IF m.behind # 0 /\ m.in_front # 0
    THEN <<Min2(m.behind, m.in_front), Max2(m.behind, m.in_front)>>
    ELSE <<0, 1>>

\* candidate i (1-based) of polys meets the threshold
Meets(polys, i) ==
    LET sc == ClaimScore(measures(polys)[i])
    IN  sc[1] * threshold[2] >= threshold[1] * sc[2]

\* candidate i is at most as far from the threshold as candidate j:
\* |si - t| <= |sj - t|, multiplied out
NotFarther(polys, i, j) ==
    LET si == ClaimScore(measures(polys)[i])
        sj == ClaimScore(measures(polys)[j])
    IN  Abs(si[1] * threshold[2] - threshold[1] * si[2]) * sj[2]
            <= Abs(sj[1] * threshold[2] - threshold[1] * sj[2]) * si[2]

NoneMeets(polys) == \A i \in 1..Len(polys) : ~Meets(polys, i)

RECURSIVE Shape(_)
Shape(node) ==
    IF IsNull(node) THEN NULL
    ELSE [walls |-> [k \in 1..Len(node.node_walls) |->
                        [corners |-> heap[node.node_walls[k]].corners,
                         parent_id |-> heap[node.node_walls[k]].parent_id]],
          front |-> Shape(node.front), back |-> Shape(node.back),
          leaf_node |-> node.leaf_node]

Crosses(polys, i, j) ==
    /\ HasSide(polys[i].plane, polys[j].pts, "ABOVE")
    /\ HasSide(polys[i].plane, polys[j].pts, "BELOW")

CrossCount(polys, i) == measures(polys)[i].crosses

\* C9 as stated: when some candidate meets the threshold, the call splits on
\* a candidate that meets it, has the fewest crosses among those that meet
\* it, and is the first in input order among those with as few crosses
C9_AsStated ==
    Built =>
        \A c \in Range(calls) :
            (~c.leaf /\ ~NoneMeets(c.polygons)) =>
                /\ Meets(c.polygons, c.wall_id + 1)
                /\ \A i \in 1..Len(c.polygons) :
                       Meets(c.polygons, i) =>
                           /\ CrossCount(c.polygons, c.wall_id + 1) <= CrossCount(c.polygons, i)
                           /\ CrossCount(c.polygons, c.wall_id + 1) = CrossCount(c.polygons, i)
                                  => c.wall_id + 1 <= i

\* the part of C9 that does not rest on the order of equivalent elements
C9_FewestCrosses ==
    Built =>
        \A c \in Range(calls) :
            (~c.leaf /\ ~NoneMeets(c.polygons)) =>
                /\ Meets(c.polygons, c.wall_id + 1)
                /\ \A i \in 1..Len(c.polygons) :
                       Meets(c.polygons, i) =>
                           CrossCount(c.polygons, c.wall_id + 1) <= CrossCount(c.polygons, i)

\* C9 with a std::sort that keeps equivalent elements in their order
C9_WhenSortKeepsOrder == std_ties = "keep" => C9_AsStated

\* C10: the kernel puts at most one fragment of a polygon in a bucket; every
\* recursive call gets fewer polygons than its caller; the height of the tree
\* is at most the number of polygons given to build_BSP
C10_Height ==
    /\ Built =>
           /\ \A c \in Range(calls) :
                  ~c.leaf => /\ Len(c.above) < Len(c.polygons)
                             /\ Len(c.below) < Len(c.polygons)
           /\ traverseTree(bsp_tree) <= Len(RootCall.polygons)
    /\ pc \in {"done", "rebuilt"} => bsp_tree_height <= Len(RootCall.polygons)

C10_Witness ==
    /\ pc = "done"
    /\ Len(RootCall.polygons) = 3
    /\ bsp_tree_height = 3
    /\ \E c \in Range(calls) : ~c.leaf /\ Len(c.above) = 2 /\ Len(c.below) = 2

(***************************************************************************)
(* Properties of create_plane_polygon_map (SpecMap)                        *)
(***************************************************************************)
\* how often pointer w stands in the plane polygon map
RECURSIVE CountIn(_, _)
CountIn(s, w) ==
    IF s = <<>> THEN 0 ELSE (IF s[1] = w THEN 1 ELSE 0) + CountIn(Tail(s), w)

RECURSIVE Occurrences(_, _)
Occurrences(map, w) ==
    IF map = <<>> THEN 0 ELSE CountIn(map[1], w) + Occurrences(Tail(map), w)

\* C5 as stated: a second run of create_plane_polygon_map on the same walls
\* leaves the groups and every wall's group id as the first run left them
C5_AsStated ==
    [][pc = "mapped once" =>
          /\ plane_polygon_map' = plane_polygon_map
          /\ \A w \in 1..Len(heap) :
                 heap'[w].plane_polygon_map_id = heap[w].plane_polygon_map_id]_vars

\* C6 as stated: after create_plane_polygon_map every enabled wall stands in
\* the map exactly once and no disabled wall stands in it
C6_AsStated ==
    pc = "mapped once" =>
        \A w \in 1..Len(heap) :
            Occurrences(plane_polygon_map, w) = IF heap[w].enabled THEN 1 ELSE 0

\* C6 holds of the lists whose wall with the smallest id is enabled
C6_WhenFirstEnabled ==
    (pc = "mapped once" /\ \E w \in 1..Len(heap) : heap[w].id = 0 /\ heap[w].enabled)
        => \A w \in 1..Len(heap) :
               Occurrences(plane_polygon_map, w) = IF heap[w].enabled THEN 1 ELSE 0

(***************************************************************************)
(* Properties of the aggregation (SpecAgg)                                 *)
(***************************************************************************)
\* the direct_reflectables wall w had before the aggregation (its copy in walls_BSP)
ListBefore(w) == walls_BSP[Place(w)].direct_reflectables

UnionOfGroup(g) == UNION {Range(ListBefore(m)) : m \in Range(g)}

StrictlyRising(s) == \A k \in 1..(Len(s) - 1) : s[k] < s[k + 1]

\* C7 as stated: after the aggregation every member of a group has the
\* duplicate-free union of the lists of all members of the group
C7_AsStated ==
    pc = "aggregated" =>
        \A g \in Range(plane_polygon_map) : \A m \in Range(g) :
            /\ Range(heap[m].direct_reflectables) = UnionOfGroup(g)
            /\ Cardinality(Range(heap[m].direct_reflectables))
                   = Len(heap[m].direct_reflectables)

\* C7, amended: after the aggregation the first wall of every group has the
\* union of the lists all members of the group had, sorted and without
\* duplicates, whatever the order of the members; the other members keep
\* the lists they had
C7_FirstMember ==
    pc = "aggregated" =>
        \A g \in Range(plane_polygon_map) :
            /\ Range(heap[g[1]].direct_reflectables) = UnionOfGroup(g)
            /\ StrictlyRising(heap[g[1]].direct_reflectables)
            /\ \A k \in 2..Len(g) : heap[g[k]].direct_reflectables = ListBefore(g[k])

C7_Witness ==
    /\ pc = "aggregated"
    /\ \E g \in Range(plane_polygon_map) :
          /\ Len(g) = 2
          /\ g[1] > g[2]
          /\ Len(ListBefore(g[1])) + Len(ListBefore(g[2])) > Cardinality(UnionOfGroup(g))
          /\ Cardinality(UnionOfGroup(g)) = 2
          /\ ListBefore(g[2]) # heap[g[1]].direct_reflectables

(***************************************************************************)
(* Properties of disable_selected_walls (SpecDisable)                      *)
(***************************************************************************)
OutOfRange(k) == walls_to_disable[k] >= Len(polygons)

\* C8: disable_selected_walls throws exactly when walls_to_disable holds an
\* index that is not below the number of walls; when all indices are in
\* range, the walls at those indices are disabled afterwards and every other
\* wall has the enabled flag it had
C8_Disable ==
    [][pc = "config" =>
          /\ fault' = (\E k \in 1..Len(walls_to_disable) : OutOfRange(k))
          /\ fault' = (pc' = "thrown")
          /\ ~fault' =>
                 /\ Len(polygons') = Len(polygons)
                 /\ \A i \in 1..Len(polygons) :
                        polygons'[i] =
                            [polygons[i] EXCEPT !.enabled =
                                @ /\ (i - 1) \notin Range(walls_to_disable)]]_vars

C8_Witness ==
    /\ pc = "thrown"
    /\ fault
    /\ Len(walls_to_disable) = 2
    /\ walls_to_disable[1] < Len(polygons)
    /\ walls_to_disable[2] >= Len(polygons)
    /\ ~polygons[walls_to_disable[1] + 1].enabled

(***************************************************************************)
(* The accumulator of build_BSP (Spec)                                     *)
(***************************************************************************)
\* the walls of the nodes of a tree: front subtree, back subtree, own walls
RECURSIVE PostOrderWalls(_)
PostOrderWalls(node) ==
    IF IsNull(node) THEN <<>>
    ELSE PostOrderWalls(node.front) \o PostOrderWalls(node.back) \o node.node_walls

\* the walls that stand in some node of a tree
RECURSIVE NodeWallSet(_)
NodeWallSet(node) ==
    IF IsNull(node) THEN {}
    ELSE Range(node.node_walls) \cup NodeWallSet(node.front) \cup NodeWallSet(node.back)

\* C11: when build_BSP is called with an empty accumulator, on return the
\* accumulator holds the walls of the returned tree in post-order (front
\* subtree, back subtree, own walls), every wall of a node once and no other
\* wall; for an empty input the result is absent and the accumulator is as
\* it was
C11_Accumulator ==
    [][(pc = "start" /\ pwalls_BSP = <<>>) =>
          /\ pwalls_BSP' = PostOrderWalls(bsp_tree')
          /\ \A w \in 1..Len(heap') :
                 CountIn(pwalls_BSP', w) =
                     (IF w \in NodeWallSet(bsp_tree') THEN 1 ELSE 0)
          /\ polygons = <<>> =>
                 /\ IsNull(bsp_tree')
                 /\ pwalls_BSP' = pwalls_BSP]_vars

\* a tree with both subtrees: the walls of the root were allocated first and
\* stand last in the accumulator
C11_Witness ==
    /\ pc = "built"
    /\ ~IsNull(bsp_tree)
    /\ ~bsp_tree.leaf_node
    /\ ~IsNull(bsp_tree.front)
    /\ ~IsNull(bsp_tree.back)
    /\ bsp_tree.node_walls[1] < bsp_tree.front.node_walls[1]
    /\ pwalls_BSP[1] = bsp_tree.front.node_walls[1]
    /\ pwalls_BSP[Len(pwalls_BSP)] = bsp_tree.node_walls[Len(bsp_tree.node_walls)]

\* an empty room has been given to build_BSP
C11_EmptyInput ==
    /\ pc = "built"
    /\ polygons = <<>>
    /\ IsNull(bsp_tree)
    /\ pwalls_BSP = <<>>

====
